---- MODULE Spec2Model ----
(***************************************************************************)
(* Model of plugins/module_utils/container_tools.py (arista.cvp).          *)
(*                                                                         *)
(*  - ContainerInput.ordered_list_containers: the while/for loop that      *)
(*    linearises a parent-pointer topology, one action per loop step.      *)
(*  - CvContainerTools: create_container, delete_container,                *)
(*    configlets_attach, configlets_detach, each one atomic action over a  *)
(*    remote registry (the CloudVision side of the cvprac client), with    *)
(*    the list of API calls the handler issued.                            *)
(***************************************************************************)
EXTENDS Integers, Sequences, FiniteSets, TLC

VARIABLES
    \* ---- ContainerInput ----
    topology,      \* self._topology: container name -> parent_container
    iter_order,    \* iteration order of the mapping (dict insertion order)
    result_list,   \* local result_list of ordered_list_containers
    pos,           \* index of the for loop in iter_order
    pc,            \* "idle" | "while" | "for" | "returned"
    passes,        \* completed passes of the for loop (capped at PassCap)
    \* ---- CvContainerTools and the remote registry ----
    cv,            \* remote registry: containers, their parents, devices, configlets
    check_mode,    \* self._ansible.check_mode
    tools_pc,      \* "ready" | "returned" | "raised" (position of the caller)
    last,          \* the operation that just ran: arguments, calls issued, outcome
    prev           \* the operation the caller consumed before this one

order_vars == <<topology, iter_order, result_list, pos, pc, passes>>

tools_vars == <<cv, check_mode, tools_pc, last, prev>>

vars == <<topology, iter_order, result_list, pos, pc, passes,
          cv, check_mode, tools_pc, last, prev>>

(***************************************************************************)
(* Bounds                                                                  *)
(***************************************************************************)
MaxContainers == 3

\* passes of the for loop that are counted before the counter saturates
PassCap == 2

AllNames == <<"A", "B", "C", "D", "E">>

TopoNames == {AllNames[i] : i \in 1..MaxContainers}

\* container_root_name default of ContainerInput.__init__
RootName == "Tenant"

(***************************************************************************)
(* Generic helpers                                                         *)
(***************************************************************************)
Range(s) == {s[i] : i \in 1..Len(s)}

IterOrders(S) ==
    {s \in [1..Cardinality(S) -> S] : \A i, j \in 1..Cardinality(S) : i # j => s[i] # s[j]}

(***************************************************************************)
(* ContainerInput.ordered_list_containers                                  *)
(***************************************************************************)
\* first if of the for body: a container declared under the root is appended
root_append(res, topo, container) ==
    IF topo[container] = RootName THEN Append(res, container) ELSE res

\* second if looking for the parent among all entries but the latest one
parent_append_stale(res, topo, container) ==
    IF (\E i \in 1..(Len(res) - 1) : res[i] = topo[container]) /\ container \notin Range(res)
    THEN Append(res, container)
    ELSE res

\* second if without the test that the parent is already in result_list
parent_append_unchecked(res, topo, container) ==
    IF container \notin Range(res) THEN Append(res, container) ELSE res

\* second if of the for body: parent already in result_list, container not yet
parent_append(res, topo, container) ==
    IF (\E i \in 1..Len(res) : res[i] = topo[container]) /\ container \notin Range(res)
    THEN Append(res, container)
    ELSE res

\* one iteration of `for container in self._topology`
for_body(res, topo, container) ==
    parent_append(root_append(res, topo, container), topo, container)

\* while(len(result_list) < len(self._topology))
while_test(res, topo) == Len(res) < Cardinality(DOMAIN topo)

(***************************************************************************)
(* Remote registry (the cvprac client and the CloudVision server behind    *)
(* it), as the handlers of CvContainerTools see it.                        *)
(***************************************************************************)
\* bounds of the registry side
MaxDevices == 1

MaxConfiglets == 2

\* names the caller passes as container / parent
DCNames == {"DC1", "DC2"}

ContainerNames == DCNames \cup {RootName}

\* the container configlets are attached to and detached from
ConfigletTargets == {"DC1"}

\* configlets known to the registry, and the names a caller may request
KnownConfiglets == {"cfg1", "cfg2"}

RequestNames == KnownConfiglets \cup {"missing-name"}

\* CONSTANTS for fields in API data
FIELD_COUNT_DEVICES == "childNetElementCount"

FIELD_COUNT_CONTAINERS == "childContainerCount"

FIELD_PARENT_ID == "parentContainerId"

FIELD_NAME == "name"

FIELD_KEY == "key"

FIELD_TOPOLOGY == "topology"

\* identifiers the registry gives to containers and configlets
KeyOf(name) ==
    CASE name = "Tenant" -> "root"
      [] name = "DC1" -> "container_1"
      [] name = "DC2" -> "container_2"
      [] name = "cfg1" -> "configlet_1"
      [] name = "cfg2" -> "configlet_2"
      [] OTHER -> "unknown"

NameOfKey(key) == CHOOSE n \in ContainerNames \cup KnownConfiglets : KeyOf(n) = key

\* containers present in the registry; the root container always is
Present(reg) == DOMAIN reg.parent \cup {RootName}

ChildContainers(reg, name) == {c \in DOMAIN reg.parent : reg.parent[c] = name}

DevicesOf(reg, name) == IF name \in DOMAIN reg.devices THEN reg.devices[name] ELSE 0

\* an optional value: <<>> is None, <<v>> is v
None == <<>>

Some(v) == <<v>>

\* api.get_container_by_name: None when the container is absent
get_container_by_name(reg, name) ==
    IF name \in Present(reg)
    THEN Some([key |-> KeyOf(name), name |-> name])
    ELSE None

\* api.filter_topology: the node facts under the 'topology' field
filter_topology(reg, node_id) ==
    LET name == NameOfKey(node_id)
    IN [topology |->
          [key |-> node_id,
           name |-> name,
           type |-> "container",
           childContainerCount |-> Cardinality(ChildContainers(reg, name)),
           childNetElementCount |-> DevicesOf(reg, name),
           parentContainerId |-> IF name = RootName THEN "" ELSE KeyOf(reg.parent[name])]]

\* api.get_configlet_by_name: None when no configlet has that name
get_configlet_by_name(name) ==
    IF name \in KnownConfiglets
    THEN Some([key |-> KeyOf(name), name |-> name, type |-> "Static"])
    ELSE None

\* effect of api.add_container on the registry
registry_add_container(reg, container_name, parent_name) ==
    IF container_name \in Present(reg) THEN reg
    ELSE [parent |-> [c \in DOMAIN reg.parent \cup {container_name} |->
                        IF c = container_name THEN parent_name ELSE reg.parent[c]],
          devices |-> [c \in DOMAIN reg.devices \cup {container_name} |->
                        IF c = container_name THEN 0 ELSE reg.devices[c]],
          attached |-> [c \in DOMAIN reg.attached \cup {container_name} |->
                        IF c = container_name THEN {} ELSE reg.attached[c]]]

\* effect of api.delete_container on the registry
registry_delete_container(reg, container_name) ==
    [parent |-> [c \in DOMAIN reg.parent \ {container_name} |-> reg.parent[c]],
     devices |-> [c \in DOMAIN reg.devices \ {container_name} |-> reg.devices[c]],
     attached |-> [c \in DOMAIN reg.attached \ {container_name} |-> reg.attached[c]]]

\* effect of api.apply_configlets_to_container on the registry
registry_apply_configlets(reg, container_name, configlets) ==
    IF container_name \notin DOMAIN reg.attached THEN reg
    ELSE [reg EXCEPT !.attached[container_name] =
              @ \cup {configlets[i].name : i \in 1..Len(configlets)}]

\* effect of api.remove_configlets_from_container on the registry
registry_remove_configlets(reg, container_name, configlets) ==
    IF container_name \notin DOMAIN reg.attached THEN reg
    ELSE [reg EXCEPT !.attached[container_name] =
              @ \ {configlets[i].name : i \in 1..Len(configlets)}]

\* what the registry does during one operation: the raise_at-th API call of
\* the operation raises CvpApiError (0: none does), and a mutating call that
\* is answered reports this status
MaxCalls == 7

Envs == [raise_at : 0..MaxCalls, status : {"success", "fail"}]

\* identifiers of the tasks a successful mutating call returns
TaskIdsOf(env) == IF env.status = "success" THEN <<"task_1">> ELSE <<>>

\* the response of a mutating call that did not raise
ApiResponse(env) == [data |-> [status |-> env.status, taskIds |-> TaskIdsOf(env)]]

\* one API call as the client records it
ApiCall(api, name, parent, configlets) ==
    [api |-> api, name |-> name, parent |-> parent, configlets |-> configlets]

\* the call just appended to calls is the one that raises
ApiRaises(env, calls) == env.raise_at = Len(calls)

MutatingApis ==
    {"add_container", "delete_container",
     "apply_configlets_to_container", "remove_configlets_from_container"}

LookupApis == {"get_container_by_name", "filter_topology", "get_configlet_by_name"}

\* result of a step of a handler: exception raised (or ""), value, calls so far
Ret(val, calls) == [exc |-> "", val |-> val, calls |-> calls]

Exc(name, calls) == [exc |-> name, val |-> None, calls |-> calls]

(***************************************************************************)
(* response.CvApiResult: the change record a public operation returns.     *)
(* name is kept as the list of its ':'-separated segments.                 *)
(***************************************************************************)
CvApiResult(action_name) ==
    [name |-> action_name, success |-> FALSE, changed |-> FALSE,
     taskIds |-> <<>>, count |-> 0]

(***************************************************************************)
(* CvContainerTools: private and generic functions                         *)
(***************************************************************************)
standard_keys ==
    {FIELD_KEY, FIELD_NAME, FIELD_COUNT_CONTAINERS, FIELD_COUNT_DEVICES, FIELD_PARENT_ID}

\* _standard_output: keep the standard keys of a dict
standard_output(source) ==
    [k \in DOMAIN source \cap standard_keys |-> source[k]]

\* _get_configlet_info: filtered configlet data, None when the name is unknown
get_configlet_info(env, calls, configlet_name) ==
    LET calls1 == Append(calls, ApiCall("get_configlet_by_name", configlet_name, "", <<>>))
        data == get_configlet_by_name(configlet_name)
    IN IF ApiRaises(env, calls1) THEN Exc("CvpApiError", calls1)
       ELSE IF data # None THEN Ret(Some(standard_output(data[1])), calls1)
       ELSE Ret(None, calls1)

\* get_container_info: standard facts of a container, None when it is absent
get_container_info(reg, env, calls, container_name) ==
    LET calls1 == Append(calls, ApiCall("get_container_by_name", container_name, "", <<>>))
        cv_response == get_container_by_name(reg, container_name)
    IN IF ApiRaises(env, calls1) THEN Exc("CvpApiError", calls1)
       ELSE IF cv_response # None /\ FIELD_KEY \in DOMAIN cv_response[1]
       THEN LET calls2 == Append(calls1, ApiCall("get_container_by_name", container_name, "", <<>>))
                container_id == get_container_by_name(reg, container_name)[1][FIELD_KEY]
                calls3 == Append(calls2, ApiCall("filter_topology", container_id, "", <<>>))
                container_facts == filter_topology(reg, container_id)[FIELD_TOPOLOGY]
            IN IF ApiRaises(env, calls2) THEN Exc("CvpApiError", calls2)
               ELSE IF ApiRaises(env, calls3) THEN Exc("CvpApiError", calls3)
               ELSE Ret(Some(standard_output(container_facts)), calls3)
       ELSE Ret(None, calls1)

\* get_container_id: key of a container; `in` on None is a TypeError
get_container_id(reg, env, calls, container_name) ==
    LET calls1 == Append(calls, ApiCall("get_container_by_name", container_name, "", <<>>))
        container_info == get_container_by_name(reg, container_name)
    IN IF ApiRaises(env, calls1) THEN Exc("CvpApiError", calls1)
       ELSE IF container_info = None THEN Exc("TypeError", calls1)
       ELSE IF FIELD_KEY \in DOMAIN container_info[1]
            THEN Ret(Some(container_info[1][FIELD_KEY]), calls1)
            ELSE Ret(None, calls1)

\* is_empty testing the child containers only
is_empty_test_devices_ignored(container) ==
    /\ FIELD_COUNT_CONTAINERS \in DOMAIN container
    /\ FIELD_COUNT_DEVICES \in DOMAIN container
    /\ container[FIELD_COUNT_CONTAINERS] = 0

\* is_empty testing the devices only
is_empty_test_children_ignored(container) ==
    /\ FIELD_COUNT_CONTAINERS \in DOMAIN container
    /\ FIELD_COUNT_DEVICES \in DOMAIN container
    /\ container[FIELD_COUNT_DEVICES] = 0

\* the test of is_empty on the facts of a container
is_empty_test(container) ==
    /\ FIELD_COUNT_CONTAINERS \in DOMAIN container
    /\ FIELD_COUNT_DEVICES \in DOMAIN container
    /\ container[FIELD_COUNT_CONTAINERS] = 0
    /\ container[FIELD_COUNT_DEVICES] = 0

\* is_empty: container has no child AND no devices attached to it
is_empty(reg, env, calls, container_name) ==
    LET container == get_container_info(reg, env, calls, container_name)
    IN IF container.exc # "" THEN container
       ELSE IF container.val = None THEN Exc("TypeError", container.calls)
       ELSE Ret(is_empty_test(container.val[1]), container.calls)

\* is_container_exists answering True whatever the lookup returned
is_container_exists_always(reg, env, calls, container_name) ==
    LET calls1 == Append(calls, ApiCall("get_container_by_name", container_name, "", <<>>))
    IN IF ApiRaises(env, calls1) THEN Exc("UnboundLocalError", calls1)
       ELSE Ret(TRUE, calls1)

\* is_container_exists: the except clause logs a CvpApiError and falls through
\* to the test of cv_data, which was never bound: UnboundLocalError
is_container_exists(reg, env, calls, container_name) ==
    LET calls1 == Append(calls, ApiCall("get_container_by_name", container_name, "", <<>>))
        cv_data == get_container_by_name(reg, container_name)
    IN IF ApiRaises(env, calls1) THEN Exc("UnboundLocalError", calls1)
       ELSE Ret(cv_data # None, calls1)

\* what a public operation hands back: exception (or ""), change record,
\* calls issued, registry afterwards
Outcome(exc, result, calls, reg) ==
    [exc |-> exc, result |-> result, calls |-> calls, cv |-> reg]

NoResult == CvApiResult(<<>>)

Raised(exc, calls, reg) == Outcome(exc, NoResult, calls, reg)

Returned(result, calls, reg) == Outcome("", result, calls, reg)

\* [entry.get('name') for entry in configlets if entry.get('name')]
configlet_names_of(configlets) ==
    LET named == SelectSeq(configlets, LAMBDA e : FIELD_NAME \in DOMAIN e /\ e[FIELD_NAME] # "")
    IN [i \in 1..Len(named) |-> named[i][FIELD_NAME]]

\* container['name'] + ':' + ':'.join(configlet_names), as its segments
change_name(container, configlet_names) ==
    <<container[FIELD_NAME]>> \o (IF configlet_names = <<>> THEN <<"">> ELSE configlet_names)

\* _configlet_add: one apply_configlets_to_container call, unless check_mode
configlet_add(reg, cm, env, calls, container, configlets) ==
    LET change_response == CvApiResult(<<"Undefined">>)
    IN IF container # None
       THEN LET named == [change_response EXCEPT
                            !.name = change_name(container[1], configlet_names_of(configlets))]
            IN IF cm
               THEN Returned([named EXCEPT !.success = TRUE, !.taskIds = <<"check_mode">>],
                             calls, reg)
               ELSE LET calls1 == Append(calls, ApiCall("apply_configlets_to_container",
                                                        container[1][FIELD_NAME], "", configlets))
                        resp == ApiResponse(env)
                    IN IF ApiRaises(env, calls1) THEN Returned(named, calls1, reg)
                       ELSE IF "data" \in DOMAIN resp /\ resp.data.status = "success"
                       THEN Returned([named EXCEPT !.taskIds = resp.data.taskIds,
                                                   !.success = TRUE],
                                     calls1,
                                     registry_apply_configlets(reg, container[1][FIELD_NAME], configlets))
                       ELSE Returned(named, calls1, reg)
       ELSE Returned(change_response, calls, reg)

\* _configlet_del with the check_mode branch lost: the call is always issued
configlet_del_no_dry_run(reg, cm, env, calls, container, configlets) ==
    IF container = None THEN Raised("TypeError", calls, reg)
    ELSE LET change_response ==
                 CvApiResult(change_name(container[1], configlet_names_of(configlets)))
             calls1 == Append(calls, ApiCall("remove_configlets_from_container",
                                             container[1][FIELD_NAME], "", configlets))
             resp == ApiResponse(env)
         IN IF ApiRaises(env, calls1) THEN Returned(change_response, calls1, reg)
            ELSE IF "data" \in DOMAIN resp /\ resp.data.status = "success"
            THEN Returned([change_response EXCEPT !.taskIds = resp.data.taskIds,
                                                    !.success = TRUE],
                          calls1,
                          registry_remove_configlets(reg, container[1][FIELD_NAME], configlets))
            ELSE Returned(change_response, calls1, reg)

\* _configlet_del: one remove_configlets_from_container call, unless
\* check_mode; container['name'] on None is a TypeError
configlet_del(reg, cm, env, calls, container, configlets) ==
    IF container = None THEN Raised("TypeError", calls, reg)
    ELSE LET change_response ==
                 CvApiResult(change_name(container[1], configlet_names_of(configlets)))
         IN IF cm
            THEN Returned([change_response EXCEPT !.success = TRUE,
                                                  !.taskIds = <<"check_mode">>],
                          calls, reg)
            ELSE LET calls1 == Append(calls, ApiCall("remove_configlets_from_container",
                                                     container[1][FIELD_NAME], "", configlets))
                     resp == ApiResponse(env)
                 IN IF ApiRaises(env, calls1) THEN Returned(change_response, calls1, reg)
                    ELSE IF "data" \in DOMAIN resp /\ resp.data.status = "success"
                    THEN Returned([change_response EXCEPT !.taskIds = resp.data.taskIds,
                                                            !.success = TRUE],
                                  calls1,
                                  registry_remove_configlets(reg, container[1][FIELD_NAME], configlets))
                    ELSE Returned(change_response, calls1, reg)

(***************************************************************************)
(* CvContainerTools: public API                                            *)
(***************************************************************************)
create_container(reg, cm, env, container, parent) ==
    LET change_result == CvApiResult(<<container>>)
        parent_exists == is_container_exists(reg, env, <<>>, parent)
    IN IF parent_exists.exc # "" THEN Raised(parent_exists.exc, parent_exists.calls, reg)
       ELSE IF parent_exists.val
       THEN LET calls2 == Append(parent_exists.calls,
                                 ApiCall("get_container_by_name", parent, "", <<>>))
                parent_id == get_container_by_name(reg, parent)
                exists == is_container_exists(reg, env, calls2, container)
            IN IF ApiRaises(env, calls2) THEN Raised("CvpApiError", calls2, reg)
               ELSE IF parent_id = None THEN Raised("TypeError", calls2, reg)
               ELSE IF exists.exc # "" THEN Raised(exists.exc, exists.calls, reg)
               ELSE IF exists.val = FALSE
               THEN IF cm
                    THEN Returned([change_result EXCEPT !.success = TRUE, !.changed = TRUE],
                                  exists.calls, reg)
                    ELSE LET calls4 == Append(exists.calls,
                                              ApiCall("add_container", container, parent, <<>>))
                             resp == ApiResponse(env)
                         IN IF ApiRaises(env, calls4) THEN Returned(change_result, calls4, reg)
                            ELSE IF resp.data.status = "success"
                            THEN Returned([change_result EXCEPT
                                               !.taskIds = resp.data.taskIds,
                                               !.success = TRUE,
                                               !.count = @ + 1],
                                          calls4,
                                          registry_add_container(reg, container, parent))
                            ELSE Returned(change_result, calls4, reg)
               ELSE Returned(change_result, exists.calls, reg)
       ELSE Returned(change_result, parent_exists.calls, reg)

delete_container(reg, cm, env, container, parent) ==
    LET change_result == CvApiResult(<<container>>)
        exists == is_container_exists(reg, env, <<>>, container)
        empty == is_empty(reg, env, exists.calls, container)
        parent_id == get_container_id(reg, env, empty.calls, parent)
        container_id == get_container_id(reg, env, parent_id.calls, container)
    IN IF exists.exc # "" THEN Raised(exists.exc, exists.calls, reg)
       ELSE IF ~exists.val THEN Returned(change_result, exists.calls, reg)
       ELSE IF empty.exc # "" THEN Raised(empty.exc, empty.calls, reg)
       ELSE IF ~empty.val THEN Returned(change_result, empty.calls, reg)
       ELSE IF parent_id.exc # "" THEN Raised(parent_id.exc, parent_id.calls, reg)
       ELSE IF container_id.exc # "" THEN Raised(container_id.exc, container_id.calls, reg)
       ELSE IF cm
       THEN Returned([change_result EXCEPT !.success = TRUE], container_id.calls, reg)
       ELSE LET calls1 == Append(container_id.calls,
                                 ApiCall("delete_container", container, parent, <<>>))
                resp == ApiResponse(env)
            IN IF ApiRaises(env, calls1) THEN Returned(change_result, calls1, reg)
               ELSE IF resp.data.status = "success"
               THEN Returned([change_result EXCEPT !.taskIds = resp.data.taskIds,
                                                   !.success = TRUE],
                             calls1, registry_delete_container(reg, container))
               ELSE Returned(change_result, calls1, reg)

\* the append of configlets_attach inserting at the front
attach_append_front(attach_configlets, data) ==
    IF data # None THEN <<data[1]>> \o attach_configlets ELSE attach_configlets

\* if data is not None: attach_configlets.append(data)
attach_append(attach_configlets, data) ==
    IF data # None THEN Append(attach_configlets, data[1]) ELSE attach_configlets

\* the for loop of configlets_attach over the requested names
RECURSIVE attach_loop(_, _, _, _)
attach_loop(env, calls, configlets, attach_configlets) ==
    IF configlets = <<>> THEN Ret(attach_configlets, calls)
    ELSE LET data == get_configlet_info(env, calls, Head(configlets))
         IN IF data.exc # "" THEN data
            ELSE attach_loop(env, data.calls, Tail(configlets),
                             attach_append(attach_configlets, data.val))

configlets_attach(reg, cm, env, container, configlets) ==
    LET container_info == get_container_info(reg, env, <<>>, container)
        attach_configlets == attach_loop(env, container_info.calls, configlets, <<>>)
    IN IF container_info.exc # "" THEN Raised(container_info.exc, container_info.calls, reg)
       ELSE IF attach_configlets.exc # ""
       THEN Raised(attach_configlets.exc, attach_configlets.calls, reg)
       ELSE configlet_add(reg, cm, env, attach_configlets.calls,
                          container_info.val, attach_configlets.val)

\* if data is not None: detach_configlets.append(data)
detach_append(detach_configlets, data) ==
    IF data # None THEN Append(detach_configlets, data[1]) ELSE detach_configlets

\* the for loop of configlets_detach over the requested names
RECURSIVE detach_loop(_, _, _, _)
detach_loop(env, calls, configlets, detach_configlets) ==
    IF configlets = <<>> THEN Ret(detach_configlets, calls)
    ELSE LET data == get_configlet_info(env, calls, Head(configlets))
         IN IF data.exc # "" THEN data
            ELSE detach_loop(env, data.calls, Tail(configlets),
                             detach_append(detach_configlets, data.val))

configlets_detach(reg, cm, env, container, configlets) ==
    LET container_info == get_container_info(reg, env, <<>>, container)
        detach_configlets == detach_loop(env, container_info.calls, configlets, <<>>)
    IN IF container_info.exc # "" THEN Raised(container_info.exc, container_info.calls, reg)
       ELSE IF detach_configlets.exc # ""
       THEN Raised(detach_configlets.exc, detach_configlets.calls, reg)
       ELSE configlet_del(reg, cm, env, detach_configlets.calls,
                          container_info.val, detach_configlets.val)

(***************************************************************************)
(* State of the caller of CvContainerTools                                 *)
(***************************************************************************)
EmptyRegistry == [parent |-> <<>>, devices |-> <<>>, attached |-> <<>>]

\* container trees of a registry: every container sits under the root or under
\* another present container, without cycles
RegistryTrees ==
    {q \in UNION {[K -> ContainerNames] : K \in SUBSET DCNames} :
        \A c \in DOMAIN q :
           /\ q[c] # c
           /\ q[c] \in DOMAIN q \cup {RootName}
           /\ (q[c] # RootName => q[q[c]] = RootName)}

\* registries the run can start from: any tree, any number of devices in each
\* container, no configlet attached yet
InitialRegistries ==
    UNION {{[parent |-> p, devices |-> d, attached |-> [c \in DOMAIN p |-> {}]] :
               d \in [DOMAIN p -> 0..MaxDevices]} : p \in RegistryTrees}

RequestLists == UNION {[1..n -> RequestNames] : n \in 0..MaxConfiglets}

CountCalls(calls, apis) == Cardinality({i \in 1..Len(calls) : calls[i].api \in apis})

IdleLast ==
    [op |-> "none", container |-> "", parent |-> "", configlets |-> <<>>,
     exc |-> "", result |-> NoResult, calls |-> <<>>, pre |-> EmptyRegistry,
     raised |-> "", status |-> "none"]

\* record of an operation that just ran under env: raised is the API whose
\* call raised CvpApiError (or ""), status the answer of the mutating call
Ran(op, container, parent, configlets, env, out) ==
    [op |-> op, container |-> container, parent |-> parent, configlets |-> configlets,
     exc |-> out.exc, result |-> out.result, calls |-> out.calls, pre |-> cv,
     raised |-> IF env.raise_at \in 1..Len(out.calls)
                THEN out.calls[env.raise_at].api ELSE "",
     status |-> IF /\ CountCalls(out.calls, MutatingApis) > 0
                   /\ env.raise_at # Len(out.calls)
                THEN env.status ELSE "none"]

NoPrev ==
    [op |-> "none", container |-> "", parent |-> "", changed |-> FALSE, adds |-> 0]

\* a create_container of an absent container under a present parent, every
\* registry call of which was answered, the add_container call with success
FirstCreate(l) ==
    /\ l.op = "create_container"
    /\ l.container \notin Present(l.pre)
    /\ l.parent \in Present(l.pre)
    /\ l.raised = ""
    /\ l.status = "success"

\* what the caller keeps of the operation it has consumed
Summary(l) ==
    IF FirstCreate(l)
    THEN [op |-> l.op, container |-> l.container, parent |-> l.parent,
          changed |-> l.result.changed,
          adds |-> CountCalls(l.calls, {"add_container"})]
    ELSE NoPrev

ToolsIdle ==
    /\ cv = EmptyRegistry
    /\ check_mode = FALSE
    /\ tools_pc = "idle"
    /\ last = IdleLast
    /\ prev = NoPrev

OrderIdle ==
    /\ topology = <<>>
    /\ iter_order = <<>>
    /\ result_list = <<>>
    /\ pos = 0
    /\ pc = "idle"
    /\ passes = 0

Init ==
    /\ cv \in InitialRegistries
    /\ check_mode \in BOOLEAN
    /\ tools_pc = "ready"
    /\ last = IdleLast
    /\ prev = NoPrev
    /\ OrderIdle

\* a public operation has run: the caller gets a change record or an exception
Invoke(op, container, parent, configlets, env, out) ==
    /\ cv' = out.cv
    /\ last' = Ran(op, container, parent, configlets, env, out)
    /\ tools_pc' = IF out.exc = "" THEN "returned" ELSE "raised"
    /\ UNCHANGED <<check_mode, prev>>
    /\ UNCHANGED order_vars

CreateContainer ==
    \E container \in DCNames, parent \in ContainerNames, env \in Envs :
        /\ tools_pc = "ready"
        /\ Invoke("create_container", container, parent, <<>>, env,
                  create_container(cv, check_mode, env, container, parent))

DeleteContainer ==
    \E container \in DCNames, parent \in ContainerNames, env \in Envs :
        /\ tools_pc = "ready"
        /\ Invoke("delete_container", container, parent, <<>>, env,
                  delete_container(cv, check_mode, env, container, parent))

ConfigletsAttach ==
    \E container \in ConfigletTargets, configlets \in RequestLists, env \in Envs :
        /\ tools_pc = "ready"
        /\ Invoke("configlets_attach", container, "", configlets, env,
                  configlets_attach(cv, check_mode, env, container, configlets))

ConfigletsDetach ==
    \E container \in ConfigletTargets, configlets \in RequestLists, env \in Envs :
        /\ tools_pc = "ready"
        /\ Invoke("configlets_detach", container, "", configlets, env,
                  configlets_detach(cv, check_mode, env, container, configlets))

\* the caller takes the change record and is ready for the next operation
ReturnToCaller ==
    /\ tools_pc = "returned"
    /\ tools_pc' = "ready"
    /\ prev' = Summary(last)
    /\ last' = IdleLast
    /\ UNCHANGED <<cv, check_mode>>
    /\ UNCHANGED order_vars

Next ==
    \/ CreateContainer
    \/ DeleteContainer
    \/ ConfigletsAttach
    \/ ConfigletsDetach
    \/ ReturnToCaller

Spec == Init /\ [][Next]_vars

Topologies ==
    UNION {[K -> TopoNames \cup {RootName}] : K \in SUBSET TopoNames}

InitOrder ==
    /\ topology \in Topologies
    /\ iter_order \in IterOrders(DOMAIN topology)
    /\ result_list = <<>>
    /\ pos = 0
    /\ pc = "while"
    /\ passes = 0
    /\ ToolsIdle

\* evaluation of the while condition: enter a pass or fall through to return
WhileTest ==
    /\ pc = "while"
    /\ IF while_test(result_list, topology)
       THEN /\ pc' = "for"
            /\ pos' = 1
       ELSE /\ pc' = "returned"
            /\ pos' = 0
    /\ UNCHANGED <<topology, iter_order, result_list, passes>>
    /\ UNCHANGED tools_vars

\* one iteration of the for loop, on the container at position pos
ForStep ==
    /\ pc = "for"
    /\ result_list' = for_body(result_list, topology, iter_order[pos])
    /\ IF pos < Len(iter_order)
       THEN /\ pos' = pos + 1
            /\ pc' = "for"
            /\ passes' = passes
       ELSE /\ pos' = 0
            /\ pc' = "while"
            /\ passes' = IF passes < PassCap THEN passes + 1 ELSE passes
    /\ UNCHANGED <<topology, iter_order>>
    /\ UNCHANGED tools_vars

NextOrder == WhileTest \/ ForStep

SpecOrder == InitOrder /\ [][NextOrder]_vars

(***************************************************************************)
(* Properties of ordered_list_containers                                   *)
(***************************************************************************)
\* the parent chain of c ends at the root within n steps
RECURSIVE ReachesRoot(_, _, _)
ReachesRoot(topo, c, n) ==
    IF topo[c] = RootName THEN TRUE
    ELSE IF n = 0 \/ topo[c] \notin DOMAIN topo THEN FALSE
    ELSE ReachesRoot(topo, topo[c], n - 1)

\* a forest rooted at the root name: no dangling parent, no cycle
WellFormed(topo) ==
    \A c \in DOMAIN topo : ReachesRoot(topo, c, Cardinality(DOMAIN topo))

\* containers whose parent is neither the root name nor a key
Dangling(topo) ==
    {c \in DOMAIN topo : topo[c] # RootName /\ topo[c] \notin DOMAIN topo}

IsPermutationOfKeys(res, topo) ==
    /\ Len(res) = Cardinality(DOMAIN topo)
    /\ Range(res) = DOMAIN topo

ParentsFirst(res, topo) ==
    \A i \in 1..Len(res) :
        topo[res[i]] # RootName => \E j \in 1..(i - 1) : res[j] = topo[res[i]]

\* C1: for every well-formed forest and every iteration order of the mapping,
\* the returned list is a permutation of the keys (each key once, length equal
\* to the number of containers) with every container after its parent.
C1_OrderedPermutation ==
    (pc = "returned" /\ WellFormed(topology)) =>
        /\ IsPermutationOfKeys(result_list, topology)
        /\ ParentsFirst(result_list, topology)

\* C2: on a topology with a dangling parent reference the operation reports an
\* error; it never returns a list from which the dangling container is
\* missing.  The code has no error outcome, so every return is a plain list.
C2_DanglingNeverOmitted ==
    pc = "returned" => \A c \in Dangling(topology) : c \in Range(result_list)

(***************************************************************************)
(* Properties of the public operations                                     *)
(***************************************************************************)
Ran_op == last.op # "none"

\* C3: when a registry call made during a public operation raises a registry
\* error, the operation still returns a change record with success = false;
\* no exception reaches the caller.
C3_RegistryErrorsAbsorbed ==
    (Ran_op /\ last.raised # "") =>
        /\ tools_pc = "returned"
        /\ last.exc = ""
        /\ last.result.success = FALSE

\* the change record of a dry run: success, nothing counted, or the no-op record
DryRunResult(r) ==
    \/ r.success /\ r.count = 0 /\ r.taskIds \in {<<>>, <<"check_mode">>}
    \/ ~r.success /\ ~r.changed /\ r.count = 0 /\ r.taskIds = <<>>

\* C4: with check_mode set, every mutating operation (create_container,
\* delete_container, configlets_attach, configlets_detach) returns: no exception
\* reaches the caller, the change record has success = true or is the no-op
\* record, and the registry client records zero calls of any kind.
C4_DryRunReturnsWithoutCalls ==
    (check_mode /\ Ran_op) =>
        /\ tools_pc = "returned"
        /\ last.exc = ""
        /\ DryRunResult(last.result)
        /\ Len(last.calls) = 0

\* C5: create_container twice in a row for the same name (parent present,
\* container absent at first, registry calls succeeding): the first call
\* reports changed = true, the second changed = false, and one add_container
\* call is issued over the two.
C5_CreateTwice ==
    (/\ tools_pc = "returned"
     /\ prev.op = "create_container"
     /\ last.op = "create_container"
     /\ last.container = prev.container
     /\ last.parent = prev.parent
     /\ last.raised = "") =>
        /\ prev.changed = TRUE
        /\ last.result.changed = FALSE
        /\ prev.adds + CountCalls(last.calls, {"add_container"}) = 1

\* C6: with check_mode set no step changes the remote registry (containers,
\* parents, configlet attachments) and no operation invokes add_container,
\* delete_container, apply_configlets_to_container or
\* remove_configlets_from_container.
C6_DryRunFrame ==
    [][check_mode => (cv' = cv /\ CountCalls(last'.calls, MutatingApis) = 0)]_vars

C6_Witness ==
    /\ check_mode
    /\ tools_pc = "returned"
    /\ last.op = "configlets_detach"
    /\ last.configlets # <<>>
    /\ last.result.success
    /\ prev.op = "none"
    /\ cv = last.pre

\* container state of name in a registry
ContainerState(reg, name) ==
    IF name \notin Present(reg) THEN "absent"
    ELSE IF ChildContainers(reg, name) = {} /\ DevicesOf(reg, name) = 0
         THEN "present-empty"
         ELSE "present-nonempty"

\* C7: delete_container on a container that exists and is not empty issues no
\* delete call and never reports success, with check_mode set or not; when
\* its lookups are answered it returns success = false.
C7_DeleteNonEmptyRefused ==
    (/\ last.op = "delete_container"
     /\ ContainerState(last.pre, last.container) = "present-nonempty") =>
        /\ CountCalls(last.calls, {"delete_container"}) = 0
        /\ last.result.success = FALSE
        /\ last.raised = "" => tools_pc = "returned"
        /\ last.container \in Present(cv)

C7_Witness ==
    /\ last.op = "delete_container"
    /\ ContainerState(last.pre, last.container) = "present-nonempty"
    /\ DevicesOf(last.pre, last.container) >= 1
    /\ ChildContainers(last.pre, last.container) = {}
    /\ last.raised = ""
    /\ tools_pc = "returned"
    /\ check_mode

\* C8: create_container whose parent is absent from the registry issues no
\* add_container call, in check_mode or not, whether the container exists or
\* not; when its lookup is answered it returns success = false, changed =
\* false, count = 0, no task ids.
C8_CreateWithoutParent ==
    (/\ last.op = "create_container"
     /\ last.parent \notin Present(last.pre)) =>
        /\ CountCalls(last.calls, MutatingApis) = 0
        /\ cv = last.pre
        /\ last.raised = "" =>
              /\ tools_pc = "returned"
              /\ last.result = CvApiResult(<<last.container>>)

C8_Witness ==
    /\ last.op = "create_container"
    /\ last.parent \notin Present(last.pre)
    /\ last.container \in Present(last.pre)
    /\ last.raised = ""
    /\ tools_pc = "returned"
    /\ ~check_mode

\* C9: with check_mode off and registry calls that succeed, create_container
\* and delete_container move the named container only from absent to
\* present-empty (create, parent present) and from present-empty to absent
\* (delete); create on a present container, delete on an absent one and
\* delete on a present-nonempty one leave the registry as it was.
C9_ContainerTransitions ==
    (/\ ~check_mode
     /\ last.op \in {"create_container", "delete_container"}
     /\ last.raised = ""
     /\ last.status # "fail") =>
        LET before == ContainerState(last.pre, last.container)
            after == ContainerState(cv, last.container)
        IN /\ before # after =>
                 \/ /\ last.op = "create_container"
                    /\ before = "absent"
                    /\ after = "present-empty"
                    /\ last.parent \in Present(last.pre)
                 \/ /\ last.op = "delete_container"
                    /\ before = "present-empty"
                    /\ after = "absent"
           /\ (last.op = "create_container" /\ before # "absent") => cv = last.pre
           /\ (last.op = "delete_container" /\ before # "present-empty") => cv = last.pre
           /\ (last.op = "create_container" /\ before = "absent"
                  /\ last.parent \in Present(last.pre)) => after = "present-empty"

C9_Witness ==
    /\ ~check_mode
    /\ last.op = "delete_container"
    /\ last.raised = ""
    /\ last.status = "success"
    /\ ContainerState(last.pre, last.container) = "present-empty"
    /\ ContainerState(cv, last.container) = "absent"
    /\ prev.op = "create_container"
    /\ prev.container = last.container

\* the requested names that resolve in the registry, in request order, each
\* as the standard {key, name} record
ResolvedBatch(names) ==
    LET known == SelectSeq(names, LAMBDA n : n \in KnownConfiglets)
    IN [i \in 1..Len(known) |-> [key |-> KeyOf(known[i]), name |-> known[i]]]

\* C10: configlets_attach on an existing container with check_mode off, its
\* lookups answered, issues one attach call and no other mutating call; the
\* call carries the requested names that resolve, in request order (an empty
\* batch when none resolves), and the result reports success whenever the
\* registry answers with status success.
C10_AttachOneBatch ==
    (/\ last.op = "configlets_attach"
     /\ ~check_mode
     /\ last.container \in Present(last.pre)
     /\ last.raised \notin LookupApis) =>
        /\ tools_pc = "returned"
        /\ CountCalls(last.calls, MutatingApis) = 1
        /\ last.calls[Len(last.calls)] =
              ApiCall("apply_configlets_to_container", last.container, "",
                      ResolvedBatch(last.configlets))
        /\ last.status = "success" =>
              /\ last.result.success
              /\ last.result.taskIds = <<"task_1">>

C10_Witness ==
    /\ last.op = "configlets_attach"
    /\ ~check_mode
    /\ last.container \in Present(last.pre)
    /\ last.configlets = <<"missing-name">>
    /\ last.status = "success"
    /\ last.result.success
    /\ last.calls[Len(last.calls)].api = "apply_configlets_to_container"
    /\ last.calls[Len(last.calls)].configlets = <<>>

\* the registry behaviour the operation that just ran has met: a call that
\* raises is the last call of its operation
EnvOf(l) ==
    [raise_at |-> IF l.raised # "" THEN Len(l.calls) ELSE 0,
     status |-> IF l.status = "fail" THEN "fail" ELSE "success"]

\* the calls of an attach with the detach call in place of the attach call
MirrorCalls(calls) ==
    [i \in 1..Len(calls) |->
        IF calls[i].api = "apply_configlets_to_container"
        THEN [calls[i] EXCEPT !.api = "remove_configlets_from_container"]
        ELSE calls[i]]

\* C11: configlets_detach mirrors configlets_attach: for every container name
\* (present or absent), every list of names and both check_mode values, the
\* detach that just ran has the outcome configlets_attach has on the same
\* registry, arguments and registry answers: returned or raised alike, same
\* calls (the detach call for the attach call, same batch), same success flag
\* and task ids.
C11_DetachMirrorsAttach ==
    last.op = "configlets_detach" =>
        LET attach == configlets_attach(last.pre, check_mode, EnvOf(last),
                                        last.container, last.configlets)
        IN /\ (attach.exc = "") = (last.exc = "")
           /\ last.calls = MirrorCalls(attach.calls)
           /\ last.result.success = attach.result.success
           /\ last.result.taskIds = attach.result.taskIds

(***************************************************************************)
(* Properties of the passes of ordered_list_containers                     *)
(***************************************************************************)
\* the mapping lists every parent before its children
ParentsListedFirst(order, topo) ==
    \A i \in 1..Len(order) :
        topo[order[i]] # RootName => \E j \in 1..(i - 1) : order[j] = topo[order[i]]

\* C12: the parent-already-placed test sees the placements of the current
\* pass: for a well-formed topology iterated parents first, each step of the
\* first pass places the container it visits, so the list is the iteration
\* order read so far, and the list returned after that single pass is the
\* iteration order.
C12_SinglePassInIterationOrder ==
    (WellFormed(topology) /\ ParentsListedFirst(iter_order, topology)) =>
        /\ pc = "for" => (passes = 0 /\ result_list = SubSeq(iter_order, 1, pos - 1))
        /\ pc = "while" => (result_list = <<>> \/ result_list = iter_order)
        /\ pc = "returned" =>
              /\ result_list = iter_order
              /\ passes = (IF iter_order = <<>> THEN 0 ELSE 1)

\* three levels placed by one pass
C12_Witness ==
    /\ pc = "returned"
    /\ passes = 1
    /\ WellFormed(topology)
    /\ ParentsListedFirst(iter_order, topology)
    /\ Len(result_list) >= 3
    /\ \E i \in 1..Len(result_list) :
          /\ topology[result_list[i]] # RootName
          /\ topology[topology[result_list[i]]] # RootName

\* C13: at every step, for every topology (well-formed or not), each entry of
\* result_list is a key of the topology and the first occurrence of an entry
\* whose parent is not the root name comes after an occurrence of its parent.
C13_ParentBeforeFirstOccurrence ==
    \A i \in 1..Len(result_list) :
        /\ result_list[i] \in DOMAIN topology
        /\ (/\ topology[result_list[i]] # RootName
            /\ \A k \in 1..(i - 1) : result_list[k] # result_list[i]) =>
              \E j \in 1..(i - 1) : result_list[j] = topology[result_list[i]]

\* a list returned for a malformed topology, with a repeated entry and a
\* container placed under its parent
C13_Witness ==
    /\ pc = "returned"
    /\ ~WellFormed(topology)
    /\ \E i, j \in 1..Len(result_list) : i < j /\ result_list[i] = result_list[j]
    /\ \E i \in 1..Len(result_list) : topology[result_list[i]] # RootName

====
